---- MODULE Spec2Model ----
(***************************************************************************)
(* Schedule dependency engine of DCMA2 (src/src/data_processing/           *)
(* folga_critica.py): the two relationship parsers, the slack-chain walk   *)
(* rastrear_cadeia and the delay simulation simular_atraso_caminho_critico.*)
(* Reference strings are sequences of one-character strings, dates are day *)
(* numbers, slack and offsets are whole days.                              *)
(***************************************************************************)
EXTENDS Integers, Sequences, FiniteSets, TLC

\* ------------------------------------------------------------------ bounds
\* Largest number of tokens of a reference string handed to the parsers.
MaxTokens == 2
\* Number of rows of the dataset; the row keys are 0 .. NumTasks - 1.
NumTasks == 2
\* Largest slack (Folga) of a row of the dataset.
MaxSlack == 2
\* Largest delay (dias_atraso) handed to the simulation.
MaxDelay == 4

VARIABLES
    \* the parsers, called on their own
    sucessoras,   \* parser input: [isna, s], s a sequence of characters
    tokens,       \* the tokens the input string was written from
    lista,        \* result of the simulator's extrair_ids_sucessoras
    ids,          \* result of the tracer's extrair_ids_sucessoras
    \* the caller's dataset
    df,           \* row key -> row
    colunas,      \* the column names of df
    \* analisar_cadeias_folga_curta
    limite_folga,
    cpc,          \* where the call is: "call", "for", "while", "append", "return"
    tarefas_folga_curta,  \* row keys the for loop of line 85 has still to take
    resultados,
    tabela_resultados,    \* the value returned
    current_idx, cadeia, folga_total, visited_cadeia,   \* locals of rastrear_cadeia
    obj_cadeias,  \* the object the local name df is bound to after line 26
    df_cadeias,   \* the rows of that object: the copy of line 26, coerced
    \* simular_atraso_caminho_critico
    tarefa_idx, dias_atraso,
    spc,          \* where the call is: "call", "propagar", "except", "return"
    excecao,      \* the exception on its way to line 261, "" when there is none
    df_sim,       \* the working copy of line 127
    obj_sim,      \* the object the name df_sim is bound to
    visited, tarefas_impactadas,
    pilha,        \* the frames of propagar_atraso, the innermost last
    retorno,      \* the value returned
    \* analisar_folga_curta (indicators.py)
    fc_limite,    \* limite_folga
    fc_pc,        \* where the call is: "call", "sort", "return"
    fc_df,        \* the copy of line 104 once 'Folga' has been coerced
    fc_tabela,    \* tarefas_folga_curta, then the value returned
    \* two calls of simular_atraso_caminho_critico on one dataset
    duas,         \* the calls' arguments, which one runs, what each returned alone
    outra,        \* the arguments and locals of the call that is not running
    \* calcular_indicadores
    indicadores   \* the value returned

parseVars == <<sucessoras, tokens, lista, ids>>
dataVars == <<df, colunas>>
cadeiaVars == <<limite_folga, cpc, tarefas_folga_curta, resultados, tabela_resultados,
                current_idx, cadeia, folga_total, visited_cadeia,
                obj_cadeias, df_cadeias>>
simVars == <<tarefa_idx, dias_atraso, spc, excecao, df_sim, obj_sim, visited,
             tarefas_impactadas, pilha, retorno>>
fcVars == <<fc_limite, fc_pc, fc_df, fc_tabela>>
duasVars == <<duas, outra>>
indVars == <<indicadores>>
vars == <<parseVars, dataVars, cadeiaVars, simVars, fcVars, duasVars, indVars>>

\* ------------------------------------------------------------- characters
Digits == {"0", "1", "2", "3", "4", "5", "6", "7", "8", "9"}

DigitVal(c) ==
    CASE c = "0" -> 0 [] c = "1" -> 1 [] c = "2" -> 2 [] c = "3" -> 3
      [] c = "4" -> 4 [] c = "5" -> 5 [] c = "6" -> 6 [] c = "7" -> 7
      [] c = "8" -> 8 [] c = "9" -> 9

DigitChar(n) ==
    CASE n = 0 -> "0" [] n = 1 -> "1" [] n = 2 -> "2" [] n = 3 -> "3"
      [] n = 4 -> "4" [] n = 5 -> "5" [] n = 6 -> "6" [] n = 7 -> "7"
      [] n = 8 -> "8" [] n = 9 -> "9"

\* int() of a string of decimal digits.
RECURSIVE PyInt(_)
PyInt(d) ==
    IF d = <<>> THEN 0
    ELSE 10 * PyInt(SubSeq(d, 1, Len(d) - 1)) + DigitVal(d[Len(d)])

\* str() of a natural number.
RECURSIVE PyStr(_)
PyStr(n) ==
    IF n < 10 THEN <<DigitChar(n)>>
    ELSE PyStr(n \div 10) \o <<DigitChar(n % 10)>>

Drop(s, n) == SubSeq(s, n + 1, Len(s))

\* re.split(';|,', s): the pieces between separators, empty pieces kept.
RECURSIVE SplitFrom(_, _)
SplitFrom(s, cur) ==
    IF s = <<>> THEN <<cur>>
    ELSE IF Head(s) \in {";", ","} THEN <<cur>> \o SplitFrom(Tail(s), <<>>)
    ELSE SplitFrom(Tail(s), Append(cur, Head(s)))

ReSplit(s) == SplitFrom(s, <<>>)

\* str.strip(): whitespace removed at both ends.
RECURSIVE LStrip(_)
LStrip(s) == IF s # <<>> /\ Head(s) = " " THEN LStrip(Tail(s)) ELSE s

RECURSIVE RStrip(_)
RStrip(s) ==
    IF s # <<>> /\ s[Len(s)] = " " THEN RStrip(SubSeq(s, 1, Len(s) - 1)) ELSE s

Strip(s) == RStrip(LStrip(s))

\* The longest prefix of decimal digits: what \d+ consumes at the start of s.
RECURSIVE LeadingDigits(_)
LeadingDigits(s) ==
    IF s # <<>> /\ Head(s) \in Digits THEN <<Head(s)>> \o LeadingDigits(Tail(s))
    ELSE <<>>

\* ------------------------------------------- the simulator's parser (142-156)
RelTypes == {"FS", "SS", "FF", "SF"}

\* The alternation (FS|SS|FF|SF) tried at the start of s; "" when it fails.
RelCodeAt(s) ==
    IF Len(s) < 2 THEN ""
    ELSE CASE s[1] = "F" /\ s[2] = "S" -> "FS"
           [] s[1] = "S" /\ s[2] = "S" -> "SS"
           [] s[1] = "F" /\ s[2] = "F" -> "FF"
           [] s[1] = "S" /\ s[2] = "F" -> "SF"
           [] OTHER -> ""

\* re.match(r'(\d+)(FS|SS|FF|SF)?(?:([+-]\d+)(?:\s*dias)?)?', item): group 1,
\* group 2 and group 3 (sign and digits), each empty when it did not take part.
ReMatch(item) ==
    LET g1 == LeadingDigits(item)
        r1 == Drop(item, Len(g1))
        g2 == RelCodeAt(r1)
        r2 == IF g2 = "" THEN r1 ELSE Drop(r1, 2)
        g3 == IF r2 # <<>> /\ Head(r2) \in {"+", "-"}
                    /\ LeadingDigits(Tail(r2)) # <<>>
              THEN <<Head(r2)>> \o LeadingDigits(Tail(r2))
              ELSE <<>>
    IN  [matched |-> g1 # <<>>, g1 |-> g1, g2 |-> g2, g3 |-> g3]

PySignedIntSemSinal(g) == PyInt(Tail(g))

\* int() of group 3, a sign followed by digits.
PySignedInt(g) == IF Head(g) = "-" THEN 0 - PyInt(Tail(g)) ELSE PyInt(Tail(g))

\* Lines 148-155: one entry for a token that matches, none otherwise.
EntryOf(item) ==
    LET m == ReMatch(Strip(item))
    IN  IF m.matched
        THEN <<[id |-> m.g1,
                rel_type |-> IF m.g2 = "" THEN "FS" ELSE m.g2,
                lag |-> IF m.g3 = <<>> THEN 0 ELSE PySignedInt(m.g3)]>>
        ELSE <<>>

RECURSIVE EntriesOfBreak(_)
EntriesOfBreak(items) ==
    IF items = <<>> \/ EntryOf(Head(items)) = <<>> THEN <<>>
    ELSE EntryOf(Head(items)) \o EntriesOfBreak(Tail(items))

RECURSIVE EntriesOf(_)
EntriesOf(items) ==
    IF items = <<>> THEN <<>> ELSE EntryOf(Head(items)) \o EntriesOf(Tail(items))

\* extrair_ids_sucessoras of simular_atraso_caminho_critico.
extrair_ids_sucessoras(suc) ==
    IF suc.isna \/ suc.s = <<>> THEN <<>> ELSE EntriesOf(ReSplit(suc.s))

\* ---------------------------------------------- the tracer's parser (42-47)
\* re.sub(r'[^0-9]', '', id): every character that is no digit removed.
OnlyDigits(item) == SelectSeq(item, LAMBDA c : c \in Digits)

RECURSIVE IdsOf(_)
IdsOf(items) ==
    IF items = <<>> THEN <<>>
    ELSE (IF OnlyDigits(Head(items)) # <<>> THEN <<OnlyDigits(Head(items))>> ELSE <<>>)
         \o IdsOf(Tail(items))

\* extrair_ids_sucessoras of analisar_cadeias_folga_curta.
extrair_ids_cadeias(suc) ==
    IF suc.isna \/ suc.s = <<>> THEN <<>> ELSE IdsOf(ReSplit(suc.s))

\* ------------------------------------------------ reference strings written
\* A token written from its parts: id digits, optional type code, optional
\* signed lag; pad surrounds it with blanks and the unit suffix.
TypeChars(ty) ==
    CASE ty = "FS" -> <<"F", "S">> [] ty = "SS" -> <<"S", "S">>
      [] ty = "FF" -> <<"F", "F">> [] ty = "SF" -> <<"S", "F">>
      [] OTHER -> <<>>

LagChars(haslag, lag) ==
    IF ~haslag THEN <<>>
    ELSE IF lag < 0 THEN <<"-">> \o PyStr(0 - lag) ELSE <<"+">> \o PyStr(lag)

Wf(id, ty, haslag, lag, pad) ==
    [kind |-> "wf", id |-> id, ty |-> ty, haslag |-> haslag, lag |-> lag,
     text |-> (IF pad THEN <<" ">> ELSE <<>>)
              \o PyStr(id) \o TypeChars(ty) \o LagChars(haslag, lag)
              \o (IF pad /\ haslag THEN <<" ", "d", "i", "a", "s">> ELSE <<>>)
              \o (IF pad THEN <<" ">> ELSE <<>>)]

\* A token given by its text: "junk" has no leading digits, "odd" has leading
\* digits followed by something that is neither a type code nor a lag.
Raw(kind, id, text) ==
    [kind |-> kind, id |-> id, ty |-> "", haslag |-> FALSE, lag |-> 0, text |-> text]

WfTokens ==
    { Wf(12, "FS", TRUE, 3, FALSE), Wf(15, "SS", TRUE, 0 - 2, FALSE),
      Wf(20, "", FALSE, 0, FALSE),  Wf(7, "FF", FALSE, 0, FALSE),
      Wf(3, "SF", TRUE, 10, TRUE),  Wf(20, "", TRUE, 0 - 2, FALSE),
      Wf(105, "FF", TRUE, 0, TRUE) }

JunkTokens ==
    { Raw("junk", 0, <<"a", "b", "c">>), Raw("junk", 0, <<>>),
      Raw("junk", 0, <<"F", "S", "+", "3">>), Raw("junk", 0, <<" ", "x", "9">>) }

OddTokens ==
    { Raw("odd", 12, <<"1", "2", "X", "X", "+", "3">>),
      Raw("odd", 12, <<"1", "2", " ", "F", "S">>) }

AllTokens == WfTokens \cup JunkTokens \cup OddTokens

Separators == {";", ","}

RECURSIVE Join(_, _)
Join(toks, seps) ==
    IF toks = <<>> THEN <<>>
    ELSE IF Len(toks) = 1 THEN toks[1].text
    ELSE toks[1].text \o <<seps[1]>> \o Join(Tail(toks), Tail(seps))

\* The two strings the specification's parser properties name.
ExampleRoundTrip ==
    [toks |-> <<Wf(12, "FS", TRUE, 3, FALSE), Wf(15, "SS", TRUE, 0 - 2, FALSE),
                Wf(20, "", FALSE, 0, FALSE)>>,
     seps |-> <<";", ",">>]

ExampleJunk ==
    [toks |-> <<Raw("junk", 0, <<"a", "b", "c">>), Raw("junk", 0, <<>>),
                Raw("junk", 0, <<>>), Raw("junk", 0, <<>>)>>,
     seps |-> <<";", ";", ",">>]

Written ==
    { [toks |-> t, seps |-> s] :
        t \in UNION { [1..n -> AllTokens] : n \in 0..MaxTokens },
        s \in UNION { [1..n -> Separators] : n \in 0..(MaxTokens - 1) } }

ParseInputs ==
    { w \in Written : Len(w.seps) = (IF w.toks = <<>> THEN 0 ELSE Len(w.toks) - 1) }
    \cup {ExampleRoundTrip, ExampleJunk}

NotRun == [done |-> FALSE, v |-> <<>>]
Ran(v) == [done |-> TRUE, v |-> v]

\* A call of the simulator's parser on the string.
ParseSimulador ==
    /\ ~lista.done
    /\ lista' = Ran(extrair_ids_sucessoras(sucessoras))
    /\ UNCHANGED <<sucessoras, tokens, ids, dataVars, cadeiaVars, simVars, fcVars, duasVars, indVars>>

\* A call of the tracer's parser on the string.
ParseCadeias ==
    /\ ~ids.done
    /\ ids' = Ran(extrair_ids_cadeias(sucessoras))
    /\ UNCHANGED <<sucessoras, tokens, lista, dataVars, cadeiaVars, simVars, fcVars, duasVars, indVars>>

\* ------------------------------------------------------------ the dataset
Keys == 0..(NumTasks - 1)

Txt(s) == [isna |-> FALSE, s |-> s]

\* 'Nome da tarefa' of the row with key k.
Nome(k) == <<"T">> \o PyStr(k)

\* Baseline dates of row k as day numbers: rows follow one another (profile 1),
\* or run in the opposite order so that row 0 finishes last (profile 2), or
\* follow one another with a finish one day off start + duration (profile 3).
Duracao(k) == IF k = 0 THEN 5 ELSE 3

Inicio(profile, k) ==
    IF profile = 2 THEN 7 * (NumTasks - 1 - k) ELSE 7 * k

Termino(profile, k) ==
    Inicio(profile, k) + Duracao(k) + (IF profile = 3 THEN 1 ELSE 0)

\* The 'Folga' cell of row k is the text "<n> dias" (TRUE) or the number n
\* (FALSE): a column read from a sheet holds both.
FolgaDias(profile, k) == (profile + k) % 2 = 0

\* A 'Folga' cell: the number in the field folga, or a text.
Numero == [is |-> FALSE, s |-> <<>>]
Texto(s) == [is |-> TRUE, s |-> s]

Dias == <<" ", "d", "i", "a", "s">>

Row(profile, k, folga, critica, suc) ==
    [nome |-> Nome(k), inicio |-> Inicio(profile, k), termino |-> Termino(profile, k),
     duracao |-> Duracao(k), folga |-> folga,
     texto |-> IF FolgaDias(profile, k) THEN Texto(PyStr(folga) \o Dias) ELSE Numero,
     sucessoras |-> suc, critica |-> critica]

\* astype(str) of a 'Folga' cell.
AsTypeStr(row) == IF row.texto.is THEN row.texto.s ELSE PyStr(row.folga)

ReplaceNada(s) == s

\* str.replace(' dias', '', regex=False): every occurrence removed.
RECURSIVE ReplaceDias(_)
ReplaceDias(s) ==
    IF s = <<>> THEN <<>>
    ELSE IF Len(s) >= 5 /\ SubSeq(s, 1, 5) = Dias
         THEN ReplaceDias(Drop(s, 5))
         ELSE <<Head(s)>> \o ReplaceDias(Tail(s))

AllDigits(s) == s # <<>> /\ \A i \in 1..Len(s) : s[i] \in Digits

\* pd.to_numeric(errors='coerce').fillna(0) of a text: the whole number
\* written in decimal digits, with its sign, and 0 for what is no number.
ToNumeric(s) ==
    IF AllDigits(s) THEN PyInt(s)
    ELSE IF s # <<>> /\ Head(s) = "-" /\ AllDigits(Tail(s)) THEN 0 - PyInt(Tail(s))
    ELSE 0

\* Lines 29-30 and 132-133: the 'Folga' column made numeric.
FolgaNumerica(row) == ToNumeric(ReplaceDias(AsTypeStr(row)))

Normalizada(d) ==
    [k \in DOMAIN d |-> [d[k] EXCEPT !.folga = FolgaNumerica(d[k]), !.texto = Numero]]

\* The objects a name is bound to: the caller's DataFrame, or the new one
\* DataFrame.copy() returns.
ObjCaller == "df"
ObjCopia == "copia"

CopyAlias(obj) == obj

\* Lines 26 and 127: df.copy() is a new object.
Copy(obj) == ObjCopia

\* The caller's rows after rows d are written through a name bound to obj.
Escrita(obj, caller, d) == IF obj = ObjCaller THEN d ELSE caller

ColunasCadeias == {"Nome da tarefa", "Folga", "Sucessoras", "Critica"}
ColunasSimulacao == ColunasCadeias \cup {"Inicio BL", "Termino BL", "Duracao BL"}
ColunasArquivo == ColunasSimulacao \cup {"Custo", "Predecessoras"}

\* key in df.index
InIndex(d, k) == k \in DOMAIN d

\* ------------------------------------ analisar_cadeias_folga_curta (5-101)
\* A row key as rastrear_cadeia holds it: the integer key the for loop of line
\* 85 hands over, a string of digits out of the parser, or None.
IntKey(n) == [tag |-> "int", n |-> n, s |-> <<>>]
StrKey(s) == [tag |-> "str", n |-> 0, s |-> s]
NoneKey == [tag |-> "none", n |-> 0, s |-> <<>>]

\* The truth value Python gives the key in "while current_idx and ...".
Truthy(k) ==
    CASE k.tag = "int" -> k.n # 0
      [] k.tag = "str" -> k.s # <<>>
      [] OTHER -> FALSE

\* int(current_idx)
IntOf(k) == IF k.tag = "int" THEN k.n ELSE PyInt(k.s)

\* Lines 71-77: the successor of least slack among those that are rows of d,
\* the first one on a tie; proxima stays None while min_folga is infinite.
RECURSIVE EscolherProxima(_, _, _, _)
EscolherProxima(d, sucs, min_folga, proxima) ==
    IF sucs = <<>> THEN proxima
    ELSE LET k == PyInt(Head(sucs))
         IN  IF InIndex(d, k) /\ (proxima.tag = "none" \/ d[k].folga < min_folga)
             THEN EscolherProxima(d, Tail(sucs), d[k].folga, StrKey(Head(sucs)))
             ELSE EscolherProxima(d, Tail(sucs), min_folga, proxima)

\* Lines 32-34: the keys of the rows with 0 < Folga <= limite, in index order.
RECURSIVE FolgaCurtaFrom(_, _, _)
FolgaCurtaFrom(d, limite, k) ==
    IF k >= Cardinality(DOMAIN d) THEN <<>>
    ELSE (IF InIndex(d, k) /\ d[k].folga > 0 /\ d[k].folga <= limite THEN <<k>> ELSE <<>>)
         \o FolgaCurtaFrom(d, limite, k + 1)

FolgaCurta(d, limite) == FolgaCurtaFrom(d, limite, 0)

\* ' -> '.join(cadeia), the arrow written as the two characters "-" and ">".
RECURSIVE JoinCadeia(_)
JoinCadeia(c) ==
    IF c = <<>> THEN <<>>
    ELSE IF Len(c) = 1 THEN c[1]
    ELSE c[1] \o <<" ", "-", ">", " ">> \o JoinCadeia(Tail(c))

SemOrdenar(rows) == {rows}

\* Line 95: sort_values by the chain total; the order among equal totals is
\* whatever the sort leaves.
SortValues(rows) ==
    LET n == Len(rows)
        perms == { q \in [1..n -> 1..n] :
                     /\ \A i, j \in 1..n : i # j => q[i] # q[j]
                     /\ \A i \in 1..(n - 1) :
                          rows[q[i]].folga_total <= rows[q[i + 1]].folga_total }
    IN  { [i \in 1..n |-> rows[q[i]]] : q \in perms }

NotReturned == [returned |-> FALSE, rows |-> <<>>]
Returned(rows) == [returned |-> TRUE, rows |-> rows]

\* Lines 17-39: the column check, the copy, the coercion of 'Folga' written
\* to the object the local name is bound to, and the short-slack filter.
AnalisarCadeias ==
    /\ cpc = "call"
    /\ IF ~(ColunasCadeias \subseteq colunas)
       THEN /\ cpc' = "return"
            /\ tabela_resultados' = Returned(<<>>)
            /\ UNCHANGED <<tarefas_folga_curta, obj_cadeias, df_cadeias, df>>
       ELSE /\ obj_cadeias' = Copy(ObjCaller)
            /\ df_cadeias' = Normalizada(df)
            /\ df' = Escrita(obj_cadeias', df, df_cadeias')
            /\ IF FolgaCurta(df_cadeias', limite_folga) = <<>>
               THEN /\ cpc' = "return"
                    /\ tabela_resultados' = Returned(<<>>)
                    /\ UNCHANGED tarefas_folga_curta
               ELSE /\ cpc' = "for"
                    /\ tarefas_folga_curta' = FolgaCurta(df_cadeias', limite_folga)
                    /\ UNCHANGED tabela_resultados
    /\ UNCHANGED <<parseVars, fcVars, duasVars, indVars, colunas, simVars, limite_folga, resultados,
                   current_idx, cadeia, folga_total, visited_cadeia>>

\* Lines 85-86 and 51-54: the for loop takes the next row and calls rastrear_cadeia.
RastrearCadeia ==
    /\ cpc = "for"
    /\ tarefas_folga_curta # <<>>
    /\ current_idx' = IntKey(Head(tarefas_folga_curta))
    /\ cadeia' = <<>>
    /\ folga_total' = 0
    /\ visited_cadeia' = {}
    /\ cpc' = "while"
    /\ UNCHANGED <<parseVars, fcVars, duasVars, indVars, dataVars, simVars, limite_folga, tarefas_folga_curta,
                   resultados, tabela_resultados, obj_cadeias, df_cadeias>>

\* The loop condition of line 56.
WhileCond == Truthy(current_idx) /\ current_idx \notin visited_cadeia

\* Lines 57-79: one turn of the while loop.
RastrearPasso ==
    /\ cpc = "while"
    /\ WhileCond
    /\ LET k == IntOf(current_idx)
       IN  IF ~InIndex(df_cadeias, k)
           THEN /\ cpc' = "append"
                /\ UNCHANGED <<current_idx, cadeia, folga_total, visited_cadeia>>
           ELSE /\ cadeia' = Append(cadeia, df_cadeias[k].nome)
                /\ folga_total' = folga_total + df_cadeias[k].folga
                /\ IF df_cadeias[k].critica = "Sim"
                   THEN /\ cpc' = "append"
                        /\ UNCHANGED <<current_idx, visited_cadeia>>
                   ELSE /\ visited_cadeia' = visited_cadeia \cup {current_idx}
                        /\ current_idx' =
                             EscolherProxima(df_cadeias,
                                             extrair_ids_cadeias(df_cadeias[k].sucessoras),
                                             0, NoneKey)
                        /\ cpc' = "while"
    /\ UNCHANGED <<parseVars, fcVars, duasVars, indVars, dataVars, simVars, limite_folga, tarefas_folga_curta,
                   resultados, tabela_resultados, obj_cadeias, df_cadeias>>

\* Line 56 when the condition fails, line 81.
RastrearSaida ==
    /\ cpc = "while"
    /\ ~WhileCond
    /\ cpc' = "append"
    /\ UNCHANGED <<parseVars, fcVars, duasVars, indVars, dataVars, simVars, limite_folga, tarefas_folga_curta, resultados,
                   tabela_resultados, current_idx, cadeia, folga_total, visited_cadeia,
                   obj_cadeias, df_cadeias>>

\* Lines 87-92: the row of the task traced.
AnexarResultado ==
    /\ cpc = "append"
    /\ LET idx == Head(tarefas_folga_curta)
       IN  resultados' = Append(resultados,
              [tarefa |-> df_cadeias[idx].nome, folga |-> df_cadeias[idx].folga,
               cadeia |-> JoinCadeia(cadeia), folga_total |-> folga_total])
    /\ tarefas_folga_curta' = Tail(tarefas_folga_curta)
    /\ cpc' = "for"
    /\ UNCHANGED <<parseVars, fcVars, duasVars, indVars, dataVars, simVars, limite_folga, tabela_resultados,
                   current_idx, cadeia, folga_total, visited_cadeia,
                   obj_cadeias, df_cadeias>>

\* Lines 94-97: the table sorted and returned.
RetornarCadeias ==
    /\ cpc = "for"
    /\ tarefas_folga_curta = <<>>
    /\ \E sorted \in SortValues(resultados) : tabela_resultados' = Returned(sorted)
    /\ cpc' = "return"
    /\ UNCHANGED <<parseVars, fcVars, duasVars, indVars, dataVars, simVars, limite_folga, tarefas_folga_curta, resultados,
                   current_idx, cadeia, folga_total, visited_cadeia,
                   obj_cadeias, df_cadeias>>

\* Successor strings of the datasets the slack-chain analysis is run on.
MenuCadeias ==
    { Txt(<<>>), Txt(<<"0">>), Txt(<<"1">>), Txt(<<"1", ",", "0">>),
      Txt(<<"9", ";", "2", ";", "1">>), Txt(<<"1", "F", "S", "+", "2">>) }

Criticas == {"Sim", "Nao"}
\* --------------------------------- simular_atraso_caminho_critico (103-263)
Min(a, b) == IF a < b THEN a ELSE b
Max(a, b) == IF a > b THEN a ELSE b

\* strftime('%d/%m/%y') of day number n, day 0 being 1 January 2024.
MonthDays == <<31, 29, 31, 30, 31, 30, 31, 31, 30, 31, 30, 31>>

RECURSIVE MonthDay(_, _)
MonthDay(n, m) ==
    IF n < MonthDays[m] THEN [month |-> m, day |-> n + 1]
    ELSE MonthDay(n - MonthDays[m], m + 1)

TwoDigits(n) == <<DigitChar(n \div 10), DigitChar(n % 10)>>

Strftime(n) ==
    LET md == MonthDay(n, 1)
    IN  TwoDigits(md.day) \o <<"/">> \o TwoDigits(md.month) \o <<"/", "2", "4">>

\* Lines 168-172.
AtrasoAbsorvido(folga_original, atraso_inicio, atraso_termino) ==
    Min(folga_original, Max(atraso_inicio, atraso_termino))

AtrasoPropagadoSemAbsorcao(folga_original, atraso_inicio, atraso_termino) ==
    Max(atraso_inicio, atraso_termino)

AtrasoPropagado(folga_original, atraso_inicio, atraso_termino) ==
    Max(atraso_inicio, atraso_termino)
      - AtrasoAbsorvido(folga_original, atraso_inicio, atraso_termino)

NovaFolgaSemLimite(folga_original, atraso_inicio, atraso_termino) ==
    folga_original - Max(atraso_inicio, atraso_termino)

NovaFolga(folga_original, atraso_inicio, atraso_termino) ==
    folga_original - AtrasoAbsorvido(folga_original, atraso_inicio, atraso_termino)

\* Lines 175-182: the dates moved, the finish corrected to keep the duration.
NovoInicio(tarefa, atraso_inicio) == tarefa.inicio + atraso_inicio

NovoTerminoPeloMaior(tarefa, atraso_inicio, atraso_termino) ==
    tarefa.termino + Max(atraso_inicio, atraso_termino)

NovoTerminoSemCorrecao(tarefa, atraso_inicio, atraso_termino) ==
    tarefa.termino + atraso_termino

NovoTermino(tarefa, atraso_inicio, atraso_termino) ==
    LET novo_inicio == NovoInicio(tarefa, atraso_inicio)
        novo_termino == tarefa.termino + atraso_termino
        duracao_atual == novo_termino - novo_inicio
    IN  IF duracao_atual # tarefa.duracao THEN novo_inicio + tarefa.duracao
        ELSE novo_termino

\* Lines 185-196: the row of the impact table.
Impacto(tarefa, idx, atraso_inicio, atraso_termino) ==
    [tarefa |-> tarefa.nome, indice |-> idx,
     inicio_original |-> Strftime(tarefa.inicio),
     termino_original |-> Strftime(tarefa.termino),
     inicio_novo |-> Strftime(NovoInicio(tarefa, atraso_inicio)),
     termino_novo |-> Strftime(NovoTermino(tarefa, atraso_inicio, atraso_termino)),
     folga_original |-> tarefa.folga,
     nova_folga |-> NovaFolga(tarefa.folga, atraso_inicio, atraso_termino),
     atraso_inicio |-> atraso_inicio, atraso_termino |-> atraso_termino]

AtualizadaSemCritica(tarefa, atraso_inicio, atraso_termino) ==
    [tarefa EXCEPT !.inicio = NovoInicio(tarefa, atraso_inicio),
                   !.termino = NovoTermino(tarefa, atraso_inicio, atraso_termino),
                   !.folga = NovaFolga(tarefa.folga, atraso_inicio, atraso_termino)]

\* Lines 199-202: the row of the working copy rewritten.
Atualizada(tarefa, atraso_inicio, atraso_termino) ==
    LET nova_folga == NovaFolga(tarefa.folga, atraso_inicio, atraso_termino)
    IN  [tarefa EXCEPT !.inicio = NovoInicio(tarefa, atraso_inicio),
                       !.termino = NovoTermino(tarefa, atraso_inicio, atraso_termino),
                       !.folga = nova_folga,
                       !.critica = IF nova_folga = 0 THEN "Sim" ELSE "Nao"]

\* A frame of propagar_atraso: its arguments, then the locals set once the
\* guard of line 164 has let the call through (pc "for": in the loop of 206).
Chamada(idx, atraso_inicio, atraso_termino) ==
    [pc |-> "entry", current_idx |-> idx,
     atraso_inicio |-> atraso_inicio, atraso_termino |-> atraso_termino,
     folga_original |-> 0, atraso_propagado |-> 0, sucessoras |-> <<>>, i |-> 1]

Topo == pilha[Len(pilha)]
Desempilhada == SubSeq(pilha, 1, Len(pilha) - 1)

\* Lines 212-223: the offsets of a successor before the floor of line 227.
\* FF and SF read the successor's duration with df_sim.loc[suc_idx, ...].
NovoAtrasoInicioSemDuracao(f, suc, duracao_suc) ==
    CASE suc.rel_type = "FS" -> f.atraso_propagado + suc.lag
      [] suc.rel_type = "SS" -> f.atraso_inicio + suc.lag
      [] suc.rel_type = "FF" -> f.atraso_termino + suc.lag
      [] suc.rel_type = "SF" -> f.atraso_termino + suc.lag

NovoAtrasoInicio(f, suc, duracao_suc) ==
    CASE suc.rel_type = "FS" -> f.atraso_propagado + suc.lag
      [] suc.rel_type = "SS" -> f.atraso_inicio + suc.lag
      [] suc.rel_type = "FF" -> f.atraso_termino + suc.lag - duracao_suc
      [] suc.rel_type = "SF" -> f.atraso_termino + suc.lag

NovoAtrasoTermino(f, suc, duracao_suc) ==
    CASE suc.rel_type = "FS" -> f.atraso_propagado + suc.lag
      [] suc.rel_type = "SS" -> f.atraso_inicio + suc.lag
      [] suc.rel_type = "FF" -> f.atraso_termino + suc.lag
      [] suc.rel_type = "SF" -> f.atraso_termino + suc.lag + duracao_suc

\* df_sim.loc[suc_idx, 'Duracao BL'] raises KeyError for a key that is no row.
LocRaises(d, suc) == suc.rel_type \in {"FF", "SF"} /\ ~InIndex(d, PyInt(suc.id))

CaughtValueError(e) == e = "ValueError"

\* Line 261: "except Exception" takes every exception the body raises.
Caught(e) == e \in {"KeyError", "IndexError", "ValueError", "TypeError"}

NoDate == [none |-> TRUE, s |-> <<>>]
Date(n) == [none |-> FALSE, s |-> Strftime(n)]

NotCalled ==
    [returned |-> FALSE, raised |-> "", tabela_impacto |-> <<>>,
     tabela_novo_critico |-> <<>>, nova_data_termino |-> NoDate]

\* Lines 124, 139 and 263: two empty tables and None.
Falha == [NotCalled EXCEPT !.returned = TRUE]

\* Lines 244-248: the rows of d with Folga = 0, in index order.
RECURSIVE NovoCriticoFrom(_, _)
NovoCriticoFrom(d, k) ==
    IF k >= NumTasks THEN <<>>
    ELSE (IF InIndex(d, k) /\ d[k].folga = 0
          THEN <<[nome |-> d[k].nome, inicio |-> Strftime(d[k].inicio),
                  termino |-> Strftime(d[k].termino), duracao |-> d[k].duracao,
                  folga |-> d[k].folga]>>
          ELSE <<>>)
         \o NovoCriticoFrom(d, k + 1)

NovoCritico(d) == NovoCriticoFrom(d, 0)

MaxTerminoDoOriginal(d) ==
    CHOOSE x \in {df[k].termino : k \in DOMAIN df} :
        \A k \in DOMAIN df : df[k].termino <= x

\* Line 253: df['Termino BL'].max()
MaxTermino(d) ==
    CHOOSE x \in {d[k].termino : k \in DOMAIN d} :
        \A k \in DOMAIN d : d[k].termino <= x

\* Lines 119-139 and 229-231: the checks, the copy and the first call.
SimularAtraso ==
    /\ spc = "call"
    /\ IF ~(ColunasSimulacao \subseteq colunas)
       THEN /\ retorno' = Falha
            /\ spc' = "return"
            /\ UNCHANGED <<df_sim, obj_sim, df, pilha>>
       ELSE /\ obj_sim' = Copy(ObjCaller)
            /\ df_sim' = Normalizada(df)
            /\ df' = Escrita(obj_sim', df, df_sim')
            /\ IF ~InIndex(df, tarefa_idx)
               THEN /\ retorno' = Falha
                    /\ spc' = "return"
                    /\ UNCHANGED pilha
               ELSE /\ pilha' = <<Chamada(tarefa_idx, dias_atraso, dias_atraso)>>
                    /\ spc' = "propagar"
                    /\ UNCHANGED retorno
    /\ UNCHANGED <<parseVars, fcVars, duasVars, indVars, colunas, cadeiaVars, tarefa_idx, dias_atraso, excecao,
                   visited, tarefas_impactadas>>

JaVisitadaSemVisited(idx) == ~InIndex(df_sim, idx)

JaVisitadaOuSemAtraso(idx) ==
    \/ idx \in visited
    \/ ~InIndex(df_sim, idx)
    \/ (Topo.atraso_inicio = 0 /\ Topo.atraso_termino = 0)

\* The guard of line 164.
JaVisitada(idx) == idx \in visited \/ ~InIndex(df_sim, idx)

\* Lines 164-165: the call returns at once.
PropagarRetorno ==
    /\ spc = "propagar"
    /\ pilha # <<>>
    /\ Topo.pc = "entry"
    /\ JaVisitada(Topo.current_idx)
    /\ pilha' = Desempilhada
    /\ UNCHANGED <<parseVars, fcVars, duasVars, indVars, dataVars, cadeiaVars, tarefa_idx, dias_atraso, spc,
                   excecao, df_sim, obj_sim, visited, tarefas_impactadas, retorno>>

\* Lines 166-205: the task is settled.
PropagarTarefa ==
    /\ spc = "propagar"
    /\ pilha # <<>>
    /\ Topo.pc = "entry"
    /\ ~JaVisitada(Topo.current_idx)
    /\ LET f == Topo
           idx == f.current_idx
           tarefa == df_sim[idx]
       IN  /\ visited' = visited \cup {idx}
           /\ tarefas_impactadas' =
                Append(tarefas_impactadas,
                       Impacto(tarefa, idx, f.atraso_inicio, f.atraso_termino))
           /\ df_sim' = [df_sim EXCEPT
                           ![idx] = Atualizada(tarefa, f.atraso_inicio, f.atraso_termino)]
           /\ pilha' = Append(Desempilhada,
                [f EXCEPT !.pc = "for",
                          !.folga_original = tarefa.folga,
                          !.atraso_propagado =
                              AtrasoPropagado(tarefa.folga, f.atraso_inicio, f.atraso_termino),
                          !.sucessoras = extrair_ids_sucessoras(tarefa.sucessoras),
                          !.i = 1])
    /\ df' = Escrita(obj_sim, df, df_sim')
    /\ UNCHANGED <<parseVars, fcVars, duasVars, indVars, colunas, cadeiaVars, tarefa_idx, dias_atraso, spc,
                   excecao, obj_sim, retorno>>

\* Lines 206-227: the next successor, its offsets and the recursive call; the
\* KeyError of lines 219 and 223 leaves every frame for line 261.
PropagarSucessora ==
    /\ spc = "propagar"
    /\ pilha # <<>>
    /\ Topo.pc = "for"
    /\ Topo.i <= Len(Topo.sucessoras)
    /\ LET f == Topo
           suc == f.sucessoras[f.i]
           suc_idx == PyInt(suc.id)
       IN  IF LocRaises(df_sim, suc)
           THEN /\ excecao' = "KeyError"
                /\ spc' = "except"
                /\ pilha' = <<>>
           ELSE LET duracao_suc == IF InIndex(df_sim, suc_idx)
                                   THEN df_sim[suc_idx].duracao ELSE 0
                IN  /\ pilha' = Append(Append(Desempilhada, [f EXCEPT !.i = f.i + 1]),
                                   Chamada(suc_idx,
                                           Max(0, NovoAtrasoInicio(f, suc, duracao_suc)),
                                           Max(0, NovoAtrasoTermino(f, suc, duracao_suc))))
                    /\ UNCHANGED <<spc, excecao>>
    /\ UNCHANGED <<parseVars, fcVars, duasVars, indVars, dataVars, cadeiaVars, tarefa_idx, dias_atraso,
                   df_sim, obj_sim, visited, tarefas_impactadas, retorno>>

\* Line 206 with no successor left: the call returns.
PropagarFim ==
    /\ spc = "propagar"
    /\ pilha # <<>>
    /\ Topo.pc = "for"
    /\ Topo.i > Len(Topo.sucessoras)
    /\ pilha' = Desempilhada
    /\ UNCHANGED <<parseVars, fcVars, duasVars, indVars, dataVars, cadeiaVars, tarefa_idx, dias_atraso, spc,
                   excecao, df_sim, obj_sim, visited, tarefas_impactadas, retorno>>

\* Lines 233-259: the three values returned.
ConcluirSimulacao ==
    /\ spc = "propagar"
    /\ pilha = <<>>
    /\ retorno' = [returned |-> TRUE, raised |-> "",
                   tabela_impacto |-> tarefas_impactadas,
                   tabela_novo_critico |-> NovoCritico(df_sim),
                   nova_data_termino |-> Date(MaxTermino(df_sim))]
    /\ spc' = "return"
    /\ UNCHANGED <<parseVars, fcVars, duasVars, indVars, dataVars, cadeiaVars, tarefa_idx, dias_atraso,
                   excecao, df_sim, obj_sim, visited, tarefas_impactadas, pilha>>

\* Lines 261-263: the handler.
TratarExcecao ==
    /\ spc = "except"
    /\ retorno' = IF Caught(excecao) THEN Falha
                  ELSE [NotCalled EXCEPT !.raised = excecao]
    /\ spc' = "return"
    /\ UNCHANGED <<parseVars, fcVars, duasVars, indVars, dataVars, cadeiaVars, tarefa_idx, dias_atraso,
                   excecao, df_sim, obj_sim, visited, tarefas_impactadas, pilha>>

\* Successor strings of the datasets the simulation is run on.
MenuSimulacao ==
    { Txt(<<>>),
      Txt(<<"1", "F", "S", "+", "2">>),
      Txt(<<"0">>),
      Txt(<<"9", "F", "F", ";", "1", "S", "S", "-", "2">>),
      Txt(<<"2", ",", "1", ";", "1", "S", "S", "+", "2">>),
      Txt(<<"1", "F", "F", "+", "2", ";", "0", "S", "F", "-", "2">>) }

\* ------------------------------------------------------ the specifications
ParseIdle ==
    /\ sucessoras = [isna |-> TRUE, s |-> <<>>]
    /\ tokens = <<>>
    /\ lista = NotRun
    /\ ids = NotRun

DataIdle == df = <<>> /\ colunas = {}

CadeiasIdle ==
    /\ limite_folga = 0
    /\ cpc = "idle"
    /\ tarefas_folga_curta = <<>>
    /\ resultados = <<>>
    /\ tabela_resultados = NotReturned
    /\ current_idx = NoneKey
    /\ cadeia = <<>>
    /\ folga_total = 0
    /\ visited_cadeia = {}
    /\ obj_cadeias = ObjCaller
    /\ df_cadeias = <<>>

SimIdle ==
    /\ tarefa_idx = 0
    /\ dias_atraso = 0
    /\ spc = "idle"
    /\ excecao = ""
    /\ df_sim = <<>>
    /\ obj_sim = ObjCaller
    /\ visited = {}
    /\ tarefas_impactadas = <<>>
    /\ pilha = <<>>
    /\ retorno = NotCalled

FcIdle ==
    /\ fc_limite = 0
    /\ fc_pc = "idle"
    /\ fc_df = <<>>
    /\ fc_tabela = NotReturned

\* The arguments and locals of a call of simular_atraso_caminho_critico that
\* is not the one running.
QuadroIdle ==
    [tarefa_idx |-> 0, dias_atraso |-> 0, spc |-> "idle", excecao |-> "",
     df_sim |-> <<>>, obj_sim |-> ObjCaller, visited |-> {},
     tarefas_impactadas |-> <<>>, pilha |-> <<>>, retorno |-> NotCalled]

\* calcular_indicadores has not returned.
\* (n / d) * 100 as the fraction it is.
Pct(n, d) == [num |-> n * 100, den |-> d]

\* "N/A"
NA == <<"N", "/", "A">>

\* Line 41: the values returned when an exception was caught.
IndFalha ==
    [returned |-> TRUE, leads_pct |-> Pct(0, 1), lags_pct |-> Pct(0, 1),
     relationship_types_pct |-> Pct(0, 1), logic_pct |-> Pct(0, 1),
     data_inicio_str |-> NA, data_termino_str |-> NA, duracao_total |-> 0]

IndNaoRetornado == [IndFalha EXCEPT !.returned = FALSE]

IndIdle == indicadores = IndNaoRetornado

DuasIdle ==
    /\ duas = [fase |-> "idle", atual |-> 1, entradas |-> <<>>, sozinhas |-> <<>>,
               base |-> <<>>, entrelacadas |-> FALSE]
    /\ outra = QuadroIdle

\* The parsers on strings written from tokens, and on a null value.
InitParse ==
    /\ \E w \in ParseInputs, na \in BOOLEAN :
          /\ tokens = (IF na THEN <<>> ELSE w.toks)
          /\ sucessoras = [isna |-> na, s |-> IF na THEN <<>> ELSE Join(w.toks, w.seps)]
    /\ lista = NotRun
    /\ ids = NotRun
    /\ DataIdle /\ CadeiasIdle /\ SimIdle /\ FcIdle /\ DuasIdle /\ IndIdle

NextParse == ParseSimulador \/ ParseCadeias

SpecParse == InitParse /\ [][NextParse]_vars

\* The column sets a dataset comes with: all of them, or one missing.
ColunasPossiveis == {ColunasArquivo, ColunasArquivo \ {"Sucessoras"}}

\* 'Folga' of the rows of the datasets: none, one day, the most.
Folgas == {0, 1, MaxSlack}

\* analisar_cadeias_folga_curta(df, limite_folga) on every dataset of the bounds.
InitCadeias ==
    /\ \E folgas \in [Keys -> Folgas], crits \in [Keys -> Criticas],
          sucs \in [Keys -> MenuCadeias] :
          df = [k \in Keys |-> Row(1, k, folgas[k], crits[k], sucs[k])]
    /\ colunas \in ColunasPossiveis
    /\ limite_folga \in {1, MaxSlack}
    /\ cpc = "call"
    /\ tarefas_folga_curta = <<>>
    /\ resultados = <<>>
    /\ tabela_resultados = NotReturned
    /\ current_idx = NoneKey
    /\ cadeia = <<>>
    /\ folga_total = 0
    /\ visited_cadeia = {}
    /\ obj_cadeias = ObjCaller
    /\ df_cadeias = <<>>
    /\ ParseIdle /\ SimIdle /\ FcIdle /\ DuasIdle /\ IndIdle

NextCadeias ==
    \/ AnalisarCadeias
    \/ RastrearCadeia
    \/ RastrearPasso
    \/ RastrearSaida
    \/ AnexarResultado
    \/ RetornarCadeias

SpecCadeias == InitCadeias /\ [][NextCadeias]_vars

\* The slack-chain analysis on datasets of one more row, where the rows traced
\* can come out of the loop of line 85 in an order that is not the sorted one.
LinhasRelatorio == 0..NumTasks

MenuRelatorio ==
    { Txt(<<>>), Txt(<<"1">>), Txt(<<"9", ";", "2", ";", "1">>) }

InitRelatorio ==
    /\ \E folgas \in [LinhasRelatorio -> Folgas], crits \in [LinhasRelatorio -> Criticas],
          sucs \in [LinhasRelatorio -> MenuRelatorio] :
          df = [k \in LinhasRelatorio |-> Row(1, k, folgas[k], crits[k], sucs[k])]
    /\ colunas = ColunasArquivo
    /\ limite_folga \in {1, MaxSlack}
    /\ cpc = "call"
    /\ tarefas_folga_curta = <<>>
    /\ resultados = <<>>
    /\ tabela_resultados = NotReturned
    /\ current_idx = NoneKey
    /\ cadeia = <<>>
    /\ folga_total = 0
    /\ visited_cadeia = {}
    /\ obj_cadeias = ObjCaller
    /\ df_cadeias = <<>>
    /\ ParseIdle /\ SimIdle /\ FcIdle /\ DuasIdle /\ IndIdle

SpecRelatorio == InitRelatorio /\ [][NextCadeias]_vars

Profiles == {1, 2, 3}
Delays == {0, 1, MaxDelay}
\* The seed handed to the simulation: the first row, or the first key that is no row.
Seeds == {0, NumTasks}

\* 'Critica' as the scheduling tool exports it: set on the rows without
\* slack. The simulation never reads the column; line 202 writes it.
CriticaDe(folga) == IF folga = 0 THEN "Sim" ELSE "Nao"

\* simular_atraso_caminho_critico(df, tarefa_idx, dias_atraso) on every dataset,
\* seed and delay of the bounds.
Init ==
    /\ colunas \in ColunasPossiveis
    /\ tarefa_idx \in Seeds
    /\ dias_atraso \in Delays
    \* a call the checks of lines 122 and 137 end is taken with one seed and delay
    /\ colunas # ColunasArquivo => tarefa_idx = 0
    /\ (colunas # ColunasArquivo \/ tarefa_idx \notin Keys) => dias_atraso = 0
    /\ \E profile \in Profiles,
          folgas \in [Keys -> Folgas], sucs \in [Keys -> MenuSimulacao] :
          df = [k \in Keys |->
                  Row(profile, k, folgas[k], CriticaDe(folgas[k]), sucs[k])]
    /\ spc = "call"
    /\ excecao = ""
    /\ df_sim = <<>>
    /\ obj_sim = ObjCaller
    /\ visited = {}
    /\ tarefas_impactadas = <<>>
    /\ pilha = <<>>
    /\ retorno = NotCalled
    /\ ParseIdle /\ CadeiasIdle /\ FcIdle /\ DuasIdle /\ IndIdle

Next ==
    \/ SimularAtraso
    \/ PropagarRetorno
    \/ PropagarTarefa
    \/ PropagarSucessora
    \/ PropagarFim
    \/ ConcluirSimulacao
    \/ TratarExcecao

Spec == Init /\ [][Next]_vars

\* ------------------------------ analisar_folga_curta (indicators.py 84-126)
ColunasFolgaCurta == {"Nome da tarefa", "Inicio BL", "Termino BL", "Duracao BL", "Folga"}

\* Line 115: the rows with 0 < Folga <= limite, in index order, with the
\* columns of colunas_desejadas.
RECURSIVE FiltrarFolgaCurta(_, _, _)
FiltrarFolgaCurta(d, limite, k) ==
    IF k >= NumTasks THEN <<>>
    ELSE (IF InIndex(d, k) /\ d[k].folga > 0 /\ d[k].folga <= limite
          THEN <<[idx |-> k, nome |-> d[k].nome, inicio |-> d[k].inicio,
                  termino |-> d[k].termino, duracao |-> d[k].duracao,
                  folga |-> d[k].folga]>>
          ELSE <<>>)
         \o FiltrarFolgaCurta(d, limite, k + 1)

\* Line 118: sort_values(by='Folga'); the order among equal values is
\* whatever the sort leaves.
SortValuesFolga(rows) ==
    LET n == Len(rows)
        perms == { q \in [1..n -> 1..n] :
                     /\ \A i, j \in 1..n : i # j => q[i] # q[j]
                     /\ \A i \in 1..(n - 1) : rows[q[i]].folga <= rows[q[i + 1]].folga }
    IN  { [i \in 1..n |-> rows[q[i]]] : q \in perms }

\* Lines 96-115: the column check, the copy, the coercion and the filter.
AnalisarFolgaCurta ==
    /\ fc_pc = "call"
    /\ IF ~(ColunasFolgaCurta \subseteq colunas)
       THEN /\ fc_pc' = "return"
            /\ fc_tabela' = Returned(<<>>)
            /\ UNCHANGED fc_df
       ELSE /\ fc_df' = Normalizada(df)
            /\ fc_tabela' = [returned |-> FALSE,
                             rows |-> FiltrarFolgaCurta(fc_df', fc_limite, 0)]
            /\ fc_pc' = "sort"
    /\ UNCHANGED <<parseVars, dataVars, cadeiaVars, simVars, duasVars, indVars, fc_limite>>

\* Lines 118-123: the table sorted and returned.
OrdenarFolgaCurta ==
    /\ fc_pc = "sort"
    /\ \E sorted \in SortValuesFolga(fc_tabela.rows) : fc_tabela' = Returned(sorted)
    /\ fc_pc' = "return"
    /\ UNCHANGED <<parseVars, dataVars, cadeiaVars, simVars, duasVars, indVars, fc_limite, fc_df>>

\* The 'Folga' cells of the datasets the filter is run on: numbers, texts
\* with the unit, and texts that are no number once ' dias' is removed.
CelulasFolga ==
    { [n |-> n, texto |-> Numero] : n \in {0, 1, MaxSlack, MaxSlack + 1} }
    \cup { [n |-> 0, texto |-> Texto(PyStr(n) \o Dias)] : n \in {0, 1, MaxSlack + 1} }
    \cup { [n |-> 0, texto |-> Texto(t)] :
             t \in { <<"1", " ", "d", "i", "a">>, <<"a", "b", "c">>, <<"n", "a", "n">>,
                     <<"-", "2">> \o Dias } }

\* analisar_folga_curta(df, limite_folga) on every dataset of the bounds.
InitFolgaCurta ==
    /\ \E cel \in [Keys -> CelulasFolga] :
          df = [k \in Keys |->
                  [Row(1, k, cel[k].n, "Nao", Txt(<<>>)) EXCEPT !.texto = cel[k].texto]]
    /\ colunas \in {ColunasArquivo, ColunasArquivo \ {"Folga"}}
    /\ fc_limite \in {1, MaxSlack}
    /\ fc_pc = "call"
    /\ fc_df = <<>>
    /\ fc_tabela = NotReturned
    /\ ParseIdle /\ CadeiasIdle /\ SimIdle /\ DuasIdle /\ IndIdle

NextFolgaCurta == AnalisarFolgaCurta \/ OrdenarFolgaCurta

SpecFolgaCurta == InitFolgaCurta /\ [][NextFolgaCurta]_vars

\* One call of either function on the caller's dataset.
InitChamadas == Init \/ InitCadeias

NextChamadas == Next \/ NextCadeias

SpecChamadas == InitChamadas /\ [][NextChamadas]_vars

\* ---------------------- two calls of the simulation on one caller's dataset
\* Lines 103 and 158-160: the arguments and locals belong to the call; the
\* caller's dataset is the one object two calls are both handed.

\* The arguments and locals of the call that is running.
Quadro ==
    [tarefa_idx |-> tarefa_idx, dias_atraso |-> dias_atraso, spc |-> spc,
     excecao |-> excecao, df_sim |-> df_sim, obj_sim |-> obj_sim,
     visited |-> visited, tarefas_impactadas |-> tarefas_impactadas,
     pilha |-> pilha, retorno |-> retorno]

\* Line 103: a call entered with the arguments e.
NovaChamada(e) ==
    [QuadroIdle EXCEPT !.tarefa_idx = e.idx, !.dias_atraso = e.dias, !.spc = "call"]

LidaDoOriginal(obj, caller, local) == caller

\* The rows a call finds under its local name df_sim: the rows of the object
\* the name is bound to.
Lida(obj, caller, local) ==
    IF obj = ObjCaller /\ local # <<>> THEN caller ELSE local

\* The call with the arguments and locals q runs.
Retomar(q) ==
    /\ tarefa_idx' = q.tarefa_idx
    /\ dias_atraso' = q.dias_atraso
    /\ spc' = q.spc
    /\ excecao' = q.excecao
    /\ df_sim' = Lida(q.obj_sim, df, q.df_sim)
    /\ obj_sim' = q.obj_sim
    /\ visited' = q.visited
    /\ tarefas_impactadas' = q.tarefas_impactadas
    /\ pilha' = q.pilha
    /\ retorno' = q.retorno

\* The host moves from one call to the other between two steps.
Alternar ==
    /\ duas.fase = "juntas"
    /\ outra.spc # "return"
    /\ Retomar(outra)
    /\ outra' = Quadro
    /\ duas' = [duas EXCEPT !.atual = 3 - @,
                            !.entrelacadas = @ \/ (spc = "propagar" /\ outra.spc = "propagar")]
    /\ UNCHANGED <<parseVars, dataVars, cadeiaVars, fcVars, indVars>>

\* A call run with no other call in progress has returned: what it returned
\* is kept, and the next call, or the two calls together, are entered.
ConcluirSozinha ==
    /\ duas.fase \in {"sozinha1", "sozinha2"}
    /\ spc = "return"
    /\ IF duas.fase = "sozinha1"
       THEN /\ duas' = [duas EXCEPT !.fase = "sozinha2", !.sozinhas = <<retorno>>]
            /\ Retomar(NovaChamada(duas.entradas[2]))
            /\ UNCHANGED outra
       ELSE /\ duas' = [duas EXCEPT !.fase = "juntas", !.sozinhas = Append(@, retorno)]
            /\ Retomar(NovaChamada(duas.entradas[1]))
            /\ outra' = NovaChamada(duas.entradas[2])
    /\ UNCHANGED <<parseVars, dataVars, cadeiaVars, fcVars, indVars>>

\* Successor strings of the datasets two calls are run on.
MenuDuas ==
    { Txt(<<>>),
      Txt(<<"1", "F", "S", "+", "2">>),
      Txt(<<"0">>),
      Txt(<<"9", "F", "F", ";", "1", "S", "S", "-", "2">>) }

\* Two calls with different delays, each from a row of the dataset: each is
\* run alone, then both are run with their steps interleaved.
InitDuas ==
    /\ colunas = ColunasArquivo
    /\ \E folgas \in [Keys -> {0, MaxSlack}], sucs \in [Keys -> MenuDuas] :
          df = [k \in Keys |-> Row(1, k, folgas[k], CriticaDe(folgas[k]), sucs[k])]
    /\ \E i1, i2 \in Keys :
          duas = [fase |-> "sozinha1", atual |-> 1,
                  entradas |-> <<[idx |-> i1, dias |-> 1], [idx |-> i2, dias |-> MaxDelay]>>,
                  sozinhas |-> <<>>, base |-> df, entrelacadas |-> FALSE]
    /\ tarefa_idx = duas.entradas[1].idx
    /\ dias_atraso = duas.entradas[1].dias
    /\ spc = "call"
    /\ excecao = ""
    /\ df_sim = <<>>
    /\ obj_sim = ObjCaller
    /\ visited = {}
    /\ tarefas_impactadas = <<>>
    /\ pilha = <<>>
    /\ retorno = NotCalled
    /\ outra = QuadroIdle
    /\ ParseIdle /\ CadeiasIdle /\ FcIdle /\ IndIdle

NextDuas == Next \/ Alternar \/ ConcluirSozinha

SpecDuas == InitDuas /\ [][NextDuas]_vars

\* ------------------- the simulation on references with other type codes
\* Successor strings with two letters after the id that are none of the
\* codes of line 150.
MenuTipos ==
    { Txt(<<>>),
      Txt(<<"1", "X", "X", "+", "3">>),
      Txt(<<"1", "T", "I", "+", "3", ";", "9", "F", "F">>),
      Txt(<<"0">>) }

InitTipos ==
    /\ colunas = ColunasArquivo
    /\ tarefa_idx = 0
    /\ dias_atraso \in Delays
    /\ \E folgas \in [Keys -> Folgas], sucs \in [Keys -> MenuTipos] :
          df = [k \in Keys |-> Row(1, k, folgas[k], CriticaDe(folgas[k]), sucs[k])]
    /\ spc = "call"
    /\ excecao = ""
    /\ df_sim = <<>>
    /\ obj_sim = ObjCaller
    /\ visited = {}
    /\ tarefas_impactadas = <<>>
    /\ pilha = <<>>
    /\ retorno = NotCalled
    /\ ParseIdle /\ CadeiasIdle /\ FcIdle /\ DuasIdle /\ IndIdle

SpecTipos == InitTipos /\ [][Next]_vars

\* ------------- the simulation on datasets whose 'Critica' is any of the two
\* Line 202 writes the column whatever it held: here a row can be flagged
\* with slack left, or not flagged without any.
InitSinalizadas ==
    /\ colunas = ColunasArquivo
    /\ tarefa_idx = 0
    /\ dias_atraso \in Delays
    /\ \E folgas \in [Keys -> Folgas], crits \in [Keys -> Criticas],
          sucs \in [Keys -> MenuDuas] :
          df = [k \in Keys |-> Row(1, k, folgas[k], crits[k], sucs[k])]
    /\ spc = "call"
    /\ excecao = ""
    /\ df_sim = <<>>
    /\ obj_sim = ObjCaller
    /\ visited = {}
    /\ tarefas_impactadas = <<>>
    /\ pilha = <<>>
    /\ retorno = NotCalled
    /\ ParseIdle /\ CadeiasIdle /\ FcIdle /\ DuasIdle /\ IndIdle

SpecSinalizadas == InitSinalizadas /\ [][Next]_vars

\* ------------------------------ calcular_indicadores (indicators.py 6-41)
ColunasIndicadores == {"Predecessoras", "Sucessoras", "Inicio BL", "Termino BL"}

\* c in x
Contem(x, c) == \E i \in 1..Len(x) : x[i] = c

\* The two-character string a b in x.
ContemPar(x, a, b) == \E i \in 1..(Len(x) - 1) : x[i] = a /\ x[i + 1] = b

\* Lines 18-19: the rows whose 'Predecessoras' is a string holding c.
ComSinal(d, c) ==
    Cardinality({ k \in DOMAIN d :
                    ~d[k].predecessoras.isna /\ Contem(d[k].predecessoras.s, c) })

\* Lines 20-21: the rows whose 'Predecessoras' holds none of II, IT, TT.
SemOutrosTipos(d) ==
    Cardinality({ k \in DOMAIN d :
                    \/ d[k].predecessoras.isna
                    \/ /\ ~ContemPar(d[k].predecessoras.s, "I", "I")
                       /\ ~ContemPar(d[k].predecessoras.s, "I", "T")
                       /\ ~ContemPar(d[k].predecessoras.s, "T", "T") })

\* Lines 22-23: the rows with neither predecessors nor successors.
LinhasVazias(d) ==
    Cardinality({ k \in DOMAIN d :
                    /\ ~d[k].predecessoras.isna /\ d[k].predecessoras.s = <<>>
                    /\ ~d[k].sucessoras.isna /\ d[k].sucessoras.s = <<>> })

\* Line 30: df['Inicio BL'].min()
MinInicio(d) ==
    CHOOSE x \in {d[k].inicio : k \in DOMAIN d} :
        \A k \in DOMAIN d : x <= d[k].inicio

\* Lines 16-41: the whole function; a column that is missing raises KeyError,
\* which line 39 catches.
CalcularIndicadores ==
    /\ ~indicadores.returned
    /\ df # <<>>
    /\ IF ~(ColunasIndicadores \subseteq colunas)
       THEN indicadores' = IndFalha
       ELSE LET quant_tarefas == Cardinality(DOMAIN df)
                leads == ComSinal(df, "+")
                lags == ComSinal(df, "-")
            IN  indicadores' =
                  [returned |-> TRUE,
                   leads_pct |-> Pct(leads, quant_tarefas),
                   lags_pct |-> Pct(lags, quant_tarefas),
                   relationship_types_pct |-> Pct(SemOutrosTipos(df), quant_tarefas),
                   logic_pct |-> Pct(LinhasVazias(df), quant_tarefas),
                   data_inicio_str |-> Strftime(MinInicio(df)),
                   data_termino_str |-> Strftime(MaxTermino(df)),
                   duracao_total |-> MaxTermino(df) - MinInicio(df)]
    /\ UNCHANGED <<parseVars, dataVars, cadeiaVars, simVars, fcVars, duasVars>>

\* 'Predecessoras' cells as ler_arquivo_excel leaves them: strings, 'nan' for
\* an empty cell of the sheet.
MenuPredecessoras ==
    { Txt(<<>>),
      Txt(<<"n", "a", "n">>),
      Txt(<<"0">>),
      Txt(<<"0", "T", "I", "+", "2">>),
      Txt(<<"0", "T", "I", "-", "2">>),
      Txt(<<"0", "I", "I", "+", "1", ";", "1", "T", "T", "-", "3">>) }

InitIndicadores ==
    /\ \E profile \in Profiles, preds \in [Keys -> MenuPredecessoras],
          sucs \in [Keys -> {Txt(<<>>), Txt(<<"1">>)}] :
          df = [k \in Keys |->
                  Row(profile, k, 0, "Sim", sucs[k]) @@ [predecessoras |-> preds[k]]]
    /\ colunas \in {ColunasArquivo, ColunasArquivo \ {"Predecessoras"}}
    /\ indicadores = IndNaoRetornado
    /\ ParseIdle /\ CadeiasIdle /\ SimIdle /\ FcIdle /\ DuasIdle

SpecIndicadores == InitIndicadores /\ [][CalcularIndicadores]_vars

\* ================================================================ claims
\* The call went past the checks of lines 122 and 137.
SimulacaoAceita == ColunasSimulacao \subseteq colunas /\ InIndex(df, tarefa_idx)

\* Every row of d has finish - start = duration and a slack that is not negative.
RowsConsistent(d) ==
    \A k \in DOMAIN d : d[k].termino - d[k].inicio = d[k].duracao /\ d[k].folga >= 0

\* C1: a simulation with a delay of 0 days, on a dataset of consistent rows and
\* whatever the types and lags of its references, leaves start, finish and
\* slack of every row of the working copy as they were, records only rows whose
\* new values are the original ones, and returns the latest finish of the
\* dataset. (Stated for the calls that raise nothing, so that the KeyError of
\* C5 takes no part in it.)
C1_ZeroDelayChangesNothing ==
    (spc = "return" /\ excecao = "" /\ SimulacaoAceita /\ dias_atraso = 0
        /\ RowsConsistent(df))
    => /\ \A k \in DOMAIN df :
            /\ df_sim[k].inicio = df[k].inicio
            /\ df_sim[k].termino = df[k].termino
            /\ df_sim[k].folga = df[k].folga
       /\ \A i \in 1..Len(retorno.tabela_impacto) :
            LET r == retorno.tabela_impacto[i]
            IN  /\ r.inicio_novo = r.inicio_original
                /\ r.termino_novo = r.termino_original
                /\ r.nova_folga = r.folga_original
       /\ retorno.nova_data_termino = Date(MaxTermino(df))

\* C2: a delay within the slack of a seed that has no successors leaves the
\* slack reduced by the delay, the seed flagged critical exactly when that
\* slack is 0, and the project finish date that of the dataset, also when the
\* seed is the row that finishes last.
C2_AbsorbedDelayKeepsFinish ==
    (spc = "return" /\ SimulacaoAceita /\ df[tarefa_idx].sucessoras.s = <<>>
        /\ dias_atraso >= 0 /\ dias_atraso <= df[tarefa_idx].folga)
    => /\ df_sim[tarefa_idx].folga = df[tarefa_idx].folga - dias_atraso
       /\ (df_sim[tarefa_idx].critica = "Sim" <=> df_sim[tarefa_idx].folga = 0)
       /\ retorno.nova_data_termino = Date(MaxTermino(df))

\* C3: the walk of rastrear_cadeia appends at most as many names as the
\* dataset has rows (one per turn of its loop), cycles included.
C3_WalkWithinTaskCount == Len(cadeia) <= NumTasks

\* C4: the walk started at a row flagged critical, whatever its key, ends with
\* the chain holding that row's name alone and the total equal to its slack.
C4_CriticalStartSingleton ==
    (cpc = "append" /\ df[Head(tarefas_folga_curta)].critica = "Sim")
    => /\ cadeia = <<df[Head(tarefas_folga_curta)].nome>>
       /\ folga_total = df[Head(tarefas_folga_curta)].folga

\* C5: a reference to a key that is no row is passed over, whatever its type:
\* the call still returns the tables and a finish date, and every successor
\* that is a row of a settled task has been settled too.
C5_UnresolvableSkipped ==
    (spc = "return" /\ SimulacaoAceita)
    => /\ ~retorno.nova_data_termino.none
       /\ retorno.tabela_impacto = tarefas_impactadas
       /\ \A k \in visited :
            LET sucs == extrair_ids_sucessoras(df[k].sucessoras)
            IN  \A i \in 1..Len(sucs) :
                   InIndex(df, PyInt(sucs[i].id)) => PyInt(sucs[i].id) \in visited

\* The FS offset the claim gives: the part of the larger incoming offset the
\* slack s did not absorb, plus the lag, floored at 0.
FsOffset(os, of, s, l) == Max(0, (Max(os, of) - Min(s, Max(os, of))) + l)

\* The specification's example: A (duration 5, slack 0) -FS+2-> B (duration 3,
\* slack 0, no successor), consistent rows, A delayed by 4 days.
ExampleFs ==
    /\ SimulacaoAceita /\ RowsConsistent(df)
    /\ tarefa_idx = 0 /\ dias_atraso = 4
    /\ df[0].duracao = 5 /\ df[0].folga = 0
    /\ df[0].sucessoras.s = <<"1", "F", "S", "+", "2">>
    /\ df[1].duracao = 3 /\ df[1].folga = 0 /\ df[1].sucessoras.s = <<>>

\* C6: every call made over an FS edge with lag l, from a task settled with
\* offsets (os, of) and slack s, carries max(0, p + l) as both offsets, p being
\* max(os, of) - min(s, max(os, of)); in the example B's dates move by 6 days
\* and B keeps its 3 days.
C6_FsPropagation ==
    /\ \A j \in 1..(Len(pilha) - 1) :
          LET f == pilha[j]
              c == pilha[j + 1]
              suc == f.sucessoras[f.i - 1]
              esperado == FsOffset(f.atraso_inicio, f.atraso_termino,
                                   df[f.current_idx].folga, suc.lag)
          IN  suc.rel_type = "FS"
              => c.atraso_inicio = esperado /\ c.atraso_termino = esperado
    /\ (spc = "return" /\ ExampleFs)
       => /\ Len(retorno.tabela_impacto) >= 2
          /\ retorno.tabela_impacto[2].indice = 1
          /\ retorno.tabela_impacto[2].inicio_novo = Strftime(df[1].inicio + 6)
          /\ retorno.tabela_impacto[2].termino_novo = Strftime(df[1].termino + 6)
          /\ df_sim[1].inicio = df[1].inicio + 6
          /\ df_sim[1].termino - df_sim[1].inicio = 3

C6_Witness ==
    /\ spc = "return" /\ ExampleFs
    /\ Len(retorno.tabela_impacto) = 2
    /\ retorno.tabela_impacto[2].atraso_inicio = 6

\* What a token written from (id, type, lag) is to yield.
Expected(tok) ==
    [id |-> tok.id,
     rel_type |-> IF tok.ty = "" THEN "FS" ELSE tok.ty,
     lag |-> IF tok.haslag THEN tok.lag ELSE 0]

\* The entries of the parser with int() applied to the id, as line 207 does.
Triples(v) ==
    [k \in 1..Len(v) |-> [id |-> PyInt(v[k].id), rel_type |-> v[k].rel_type,
                          lag |-> v[k].lag]]

RoundTripText == Join(ExampleRoundTrip.toks, ExampleRoundTrip.seps)

\* C7: a string of tokens written as id, optional type code and optional
\* signed lag parses to one entry per token, in order, with that id, that
\* type (FS when absent) and that lag (0 when absent); "12FS+3;15SS-2,20"
\* parses to (12,FS,3), (15,SS,-2), (20,FS,0).
C7_ParserEntries ==
    lista.done
    => /\ (~sucessoras.isna /\ \A k \in 1..Len(tokens) : tokens[k].kind = "wf")
          => /\ Triples(lista.v) = [k \in 1..Len(tokens) |-> Expected(tokens[k])]
             /\ \A k \in 1..Len(tokens) : lista.v[k].id = PyStr(tokens[k].id)
       /\ (~sucessoras.isna
            /\ sucessoras.s = <<"1", "2", "F", "S", "+", "3", ";",
                                "1", "5", "S", "S", "-", "2", ",", "2", "0">>)
          => Triples(lista.v) = << [id |-> 12, rel_type |-> "FS", lag |-> 3],
                                   [id |-> 15, rel_type |-> "SS", lag |-> 0 - 2],
                                   [id |-> 20, rel_type |-> "FS", lag |-> 0] >>

C7_Witness ==
    /\ lista.done /\ ~sucessoras.isna
    /\ sucessoras.s = RoundTripText
    /\ Len(sucessoras.s) = 16
    /\ Len(lista.v) = 3

\* The tokens that are not junk, in order.
Parseable(toks) == SelectSeq(toks, LAMBDA tok : tok.kind # "junk")

\* C8: the parser returns a list for every input; a null value, the empty
\* string and a string of tokens without leading digits give the empty list,
\* and in a mixed string the tokens without leading digits are dropped while
\* every other token gives its entry, in order.
C8_ParserTolerance ==
    lista.done
    => /\ (sucessoras.isna \/ sucessoras.s = <<>>
             \/ \A k \in 1..Len(tokens) : tokens[k].kind = "junk")
          => lista.v = <<>>
       /\ ~sucessoras.isna
          => /\ Len(lista.v) = Len(Parseable(tokens))
             /\ \A k \in 1..Len(Parseable(tokens)) :
                  LET tok == Parseable(tokens)[k]
                  IN  /\ PyInt(lista.v[k].id) = tok.id
                      /\ tok.kind = "wf" => Triples(lista.v)[k] = Expected(tok)

C8_Witness ==
    /\ lista.done /\ ~sucessoras.isna
    /\ Len(tokens) = 2
    /\ tokens[1].kind = "junk" /\ tokens[1].text = <<"a", "b", "c">>
    /\ tokens[2].kind = "wf"
    /\ Len(lista.v) = 1

\* The work one simulation has left: what every row not yet settled will
\* cost, what the open frames have still to do, and the steps of the call.
RECURSIVE RestanteRows(_, _)
RestanteRows(vis, k) ==
    IF k >= NumTasks THEN 0
    ELSE (IF k \in vis \/ ~InIndex(df, k) THEN 0
          ELSE 2 * Len(extrair_ids_sucessoras(df[k].sucessoras)) + 2)
         + RestanteRows(vis, k + 1)

RECURSIVE RestanteFrames(_)
RestanteFrames(p) ==
    IF p = <<>> THEN 0
    ELSE (IF Head(p).pc = "entry" THEN 1
          ELSE 2 * (Len(Head(p).sucessoras) + 1 - Head(p).i) + 1)
         + RestanteFrames(Tail(p))

Restante(at, vis, p) ==
    CASE at = "call" -> RestanteRows(vis, 0) + 4
      [] at = "propagar" -> RestanteRows(vis, 0) + RestanteFrames(p) + 2
      [] at = "except" -> 1
      [] OTHER -> 0

OneRowPerTask ==
    \A i, j \in 1..Len(tarefas_impactadas) :
        i # j => tarefas_impactadas[i].indice # tarefas_impactadas[j].indice

\* The frames past the guard of line 164: the tasks being settled.
Settling == { j \in 1..Len(pilha) : pilha[j].pc = "for" }

\* A step of the call is possible: the guards of the steps of one position
\* cover every case of that position.
PodeAvancar ==
    \/ spc \in {"call", "except"}
    \/ /\ spc = "propagar"
       /\ \/ pilha = <<>>
          \/ /\ Topo.pc = "entry"
             /\ (JaVisitada(Topo.current_idx) \/ Topo.current_idx \in DOMAIN df_sim)
          \/ /\ Topo.pc = "for"
             /\ Topo.i \in 1..(Len(Topo.sucessoras) + 1)

\* C9 as claimed: at most one row per task in the impact table and never more
\* nested calls of propagar_atraso than the dataset has rows.
C9_DepthWithinTaskCount == OneRowPerTask /\ Len(pilha) <= NumTasks

\* C9 as it holds: the call ends (every step takes from the work left, and a
\* step is possible until the call has returned), the impact table holds at
\* most one row per task, at most one call per row is past the guard of line
\* 164, and the nested calls are at most one more than the rows, the
\* innermost being one the guard is about to turn away.
C9_BoundedPropagation ==
    /\ [](OneRowPerTask
          /\ Cardinality(Settling) <= NumTasks
          /\ Len(pilha) <= NumTasks + 1
          /\ (Len(pilha) = NumTasks + 1 => JaVisitada(Topo.current_idx))
          /\ Restante(spc, visited, pilha) >= 0
          /\ (spc # "return" => PodeAvancar))
    /\ [][Restante(spc', visited', pilha') < Restante(spc, visited, pilha)]_vars

C9_Witness ==
    /\ spc = "propagar"
    /\ Len(pilha) = NumTasks + 1
    /\ Topo.current_idx \in visited
    /\ Cardinality(visited) = NumTasks

\* C10: the call returns and raises nothing, and when a required column is
\* absent or the seed is no row it returns two empty tables and no date.
C10_FailurePolicy ==
    spc = "return"
    => /\ retorno.returned /\ retorno.raised = ""
       /\ ~SimulacaoAceita
          => /\ retorno.tabela_impacto = <<>>
             /\ retorno.tabela_novo_critico = <<>>
             /\ retorno.nova_data_termino.none

C10_Witness ==
    /\ spc = "return"
    /\ ColunasSimulacao \subseteq colunas
    /\ ~InIndex(df, tarefa_idx)
    /\ retorno = Falha

\* C11: no step of simular_atraso_caminho_critico or of
\* analisar_cadeias_folga_curta, on the normal path or on the failure path,
\* changes a row or a column of the caller's dataset; the names the two
\* functions write through are bound to a copy made in the call.
C11_CallerDatasetUntouched ==
    /\ [](/\ (df_sim # <<>> => obj_sim # ObjCaller)
          /\ (df_cadeias # <<>> => obj_cadeias # ObjCaller))
    /\ [][df' = df /\ colunas' = colunas]_vars

C11_Witness ==
    /\ spc = "return" /\ retorno.raised = "" /\ retorno.tabela_impacto # <<>>
    /\ \E k \in DOMAIN df :
          /\ df[k].texto.is /\ ~df_sim[k].texto.is
          /\ df_sim[k].inicio # df[k].inicio
          /\ df_sim[k].folga # df[k].folga

\* C12: on a dataset whose slack is nowhere negative, every slack of the
\* working copy and every 'Nova Folga' of the impact table is 0 or more,
\* whatever the seed, the delay and the references; the slack computed at
\* line 172 is 0 or more for every pair of offsets, negative ones included.
C12_SlackNeverNegative ==
    /\ \A k \in DOMAIN df_sim : df_sim[k].folga >= 0
    /\ \A i \in 1..Len(tarefas_impactadas) : tarefas_impactadas[i].nova_folga >= 0
    /\ spc = "call"
       => \A fo \in 0..MaxSlack, ai, at \in (0 - MaxDelay)..(MaxDelay + 2) :
             NovaFolga(fo, ai, at) >= 0

C12_Witness ==
    /\ spc = "return" /\ retorno.raised = ""
    /\ \E i \in 1..Len(retorno.tabela_impacto) :
          LET r == retorno.tabela_impacto[i]
          IN  /\ r.folga_original > 0
              /\ r.atraso_termino > r.folga_original
              /\ r.nova_folga = 0
              /\ df_sim[r.indice].folga = 0

\* The call went through the propagation and returned its tables.
SimulacaoConcluida == spc = "return" /\ excecao = "" /\ SimulacaoAceita

\* C13: once the propagation is over, the critical-path table holds one row
\* for each row of the working copy whose slack is 0, settled by the call or
\* not, and no other row, and the finish date returned is the latest finish
\* of the working copy.
C13_CriticalTableAndFinish ==
    SimulacaoConcluida
    => LET t == retorno.tabela_novo_critico
           zero == { k \in DOMAIN df_sim : df_sim[k].folga = 0 }
       IN  /\ Len(t) = Cardinality(zero)
           /\ { t[i].nome : i \in 1..Len(t) } = { df_sim[k].nome : k \in zero }
           /\ \A i \in 1..Len(t) :
                 \E k \in zero :
                    /\ t[i].nome = df_sim[k].nome /\ t[i].folga = 0
                    /\ t[i].inicio = Strftime(df_sim[k].inicio)
                    /\ t[i].termino = Strftime(df_sim[k].termino)
           /\ ~retorno.nova_data_termino.none
           /\ \E k \in DOMAIN df_sim :
                 /\ retorno.nova_data_termino.s = Strftime(df_sim[k].termino)
                 /\ \A j \in DOMAIN df_sim : df_sim[j].termino <= df_sim[k].termino

C13_Witness ==
    /\ SimulacaoConcluida
    /\ Len(retorno.tabela_novo_critico) = NumTasks
    /\ \E k \in DOMAIN df_sim : k \notin visited /\ df_sim[k].folga = 0
    /\ \E k \in visited : df[k].folga > 0 /\ df_sim[k].folga = 0
    /\ retorno.nova_data_termino # Date(MaxTerminoDoOriginal(df))

\* The slack a 'Folga' cell states: the number, or the whole number written
\* before a ' dias' suffix (or alone), and 0 when the text is no such thing.
SlackOf(row) ==
    IF ~row.texto.is THEN row.folga
    ELSE LET t == row.texto.s
             semSufixo == IF Len(t) >= 5 /\ SubSeq(t, Len(t) - 4, Len(t)) = Dias
                          THEN SubSeq(t, 1, Len(t) - 5) ELSE t
         IN  IF AllDigits(semSufixo) THEN PyInt(semSufixo)
             ELSE IF semSufixo # <<>> /\ Head(semSufixo) = "-" /\ AllDigits(Tail(semSufixo))
                  THEN 0 - PyInt(Tail(semSufixo))
                  ELSE 0

\* C14: analisar_folga_curta(df, L) on a dataset with the columns it needs
\* returns one row for each task whose slack s, read from the cell with the
\* ' dias' suffix removed and what is no number taken as 0, has 0 < s <= L,
\* and no other row; the rows are in order of non-decreasing slack and none
\* has slack 0.
C14_ShortSlackFilter ==
    (fc_pc = "return" /\ ColunasFolgaCurta \subseteq colunas)
    => LET t == fc_tabela.rows
           curta == { k \in DOMAIN df : 0 < SlackOf(df[k]) /\ SlackOf(df[k]) <= fc_limite }
       IN  /\ fc_tabela.returned
           /\ Len(t) = Cardinality(curta)
           /\ { t[i].idx : i \in 1..Len(t) } = curta
           /\ \A i \in 1..Len(t) :
                 /\ t[i].folga = SlackOf(df[t[i].idx]) /\ t[i].folga # 0
                 /\ t[i].nome = df[t[i].idx].nome
           /\ \A i \in 1..(Len(t) - 1) : t[i].folga <= t[i + 1].folga

C14_Witness ==
    /\ fc_pc = "return" /\ ColunasFolgaCurta \subseteq colunas
    /\ Len(fc_tabela.rows) = NumTasks
    /\ fc_tabela.rows[1].idx > fc_tabela.rows[2].idx
    /\ fc_tabela.rows[1].folga < fc_tabela.rows[2].folga
    /\ df[fc_tabela.rows[1].idx].texto.is

\* The names a rendered chain was joined from.
RECURSIVE SplitCadeia(_, _)
SplitCadeia(text, cur) ==
    IF text = <<>> THEN (IF cur = <<>> THEN <<>> ELSE <<cur>>)
    ELSE IF Len(text) >= 4 /\ SubSeq(text, 1, 4) = <<" ", "-", ">", " ">>
         THEN <<cur>> \o SplitCadeia(Drop(text, 4), <<>>)
         ELSE SplitCadeia(Tail(text), Append(cur, Head(text)))

\* The slack of the tasks named, added up.
RECURSIVE SomaFolga(_)
SomaFolga(nomes) ==
    IF nomes = <<>> THEN 0
    ELSE SlackOf(df[CHOOSE k \in DOMAIN df : df[k].nome = Head(nomes)])
         + SomaFolga(Tail(nomes))

\* C15: the report of analisar_cadeias_folga_curta(df, limit) holds one row
\* for each task with 0 < slack <= limit and no other row; the total of a row
\* is the sum of the slack of the tasks its chain names, one term per name;
\* the rows are in order of non-decreasing total.
C15_ChainReport ==
    /\ cpc = "append"
       => folga_total = SomaFolga(cadeia)
    /\ (cpc = "return" /\ ColunasCadeias \subseteq colunas)
       => LET t == tabela_resultados.rows
              curta == { k \in DOMAIN df :
                           0 < SlackOf(df[k]) /\ SlackOf(df[k]) <= limite_folga }
          IN  /\ tabela_resultados.returned
              /\ Len(t) = Cardinality(curta)
              /\ { t[i].tarefa : i \in 1..Len(t) } = { df[k].nome : k \in curta }
              /\ \A i \in 1..Len(t) :
                    /\ t[i].folga = SomaFolga(<<t[i].tarefa>>)
                    /\ t[i].folga_total = SomaFolga(SplitCadeia(t[i].cadeia, <<>>))
              /\ \A i \in 1..(Len(t) - 1) : t[i].folga_total <= t[i + 1].folga_total

C15_Witness ==
    /\ cpc = "return" /\ ColunasCadeias \subseteq colunas
    /\ Len(tabela_resultados.rows) = NumTasks
    /\ tabela_resultados.rows # resultados
    /\ \E i \in 1..NumTasks :
          Len(SplitCadeia(tabela_resultados.rows[i].cadeia, <<>>)) >= 2
    /\ tabela_resultados.rows[1].folga_total < tabela_resultados.rows[2].folga_total

\* C16: two calls of the simulation over one base dataset, their steps
\* interleaved in any order, each return the impact table, critical-path
\* table and finish date the call returns when run alone; the base dataset
\* stays as it was; a step of one call leaves the arguments and locals of the
\* other (visited set, impact list, working copy) as they were.
C16_IndependentCalls ==
    /\ [](duas.fase # "idle" =>
            /\ df = duas.base
            /\ (duas.fase = "juntas" /\ spc = "return")
               => retorno = duas.sozinhas[duas.atual]
            /\ (duas.fase = "juntas" /\ outra.spc = "return")
               => outra.retorno = duas.sozinhas[3 - duas.atual])
    /\ [][(duas.fase = "juntas" /\ duas'.atual = duas.atual) => outra' = outra]_vars

C16_Witness ==
    /\ duas.fase = "juntas" /\ duas.entrelacadas
    /\ spc = "return" /\ outra.spc = "return"
    /\ retorno.tabela_impacto # <<>> /\ outra.retorno.tabela_impacto # <<>>
    /\ Len(retorno.tabela_impacto) = NumTasks
    /\ retorno # outra.retorno

\* The letters written after the id of a token.
RECURSIVE LetrasIniciais(_)
LetrasIniciais(s) ==
    IF s # <<>> /\ Head(s) \notin Digits \cup {"+", "-", " "}
    THEN <<Head(s)>> \o LetrasIniciais(Tail(s))
    ELSE <<>>

\* The token names row k with no type code or with one of FS, SS, FF, SF.
TipoConhecido(item, k) ==
    LET t == Strip(item)
        g1 == LeadingDigits(t)
    IN  /\ g1 # <<>> /\ PyInt(g1) = k
        /\ LetrasIniciais(Drop(t, Len(g1)))
              \in {<<>>, <<"F", "S">>, <<"S", "S">>, <<"F", "F">>, <<"S", "F">>}

\* C17: a successor token whose type code is none of FS, SS, FF, SF causes
\* no propagation: a task other than the seed is processed only when some
\* row names it in a token with a known type code or with none.
C17_UnknownTypeIgnored ==
    \A k \in visited :
        \/ k = tarefa_idx
        \/ \E j \in DOMAIN df :
              /\ ~df[j].sucessoras.isna
              /\ \E i \in 1..Len(ReSplit(df[j].sucessoras.s)) :
                    TipoConhecido(ReSplit(df[j].sucessoras.s)[i], k)

\* C18: on every reference string the ids the tracer's parser gives, which
\* are the rows the walk looks up, are the ids the simulator's parser gives,
\* token by token: the leading digits of each token.
C18_TracerResolvesAsParser ==
    (lista.done /\ ids.done)
    => /\ Len(ids.v) = Len(lista.v)
       /\ \A i \in 1..Len(ids.v) : PyInt(ids.v[i]) = PyInt(lista.v[i].id)

\* The offsets the table gives for an edge of type ty with lag l out of a
\* task that came with offsets (os, of), into a successor of duration d.
TabelaOffsets(ty, os, of, l, d) ==
    CASE ty = "SS" -> <<Max(0, os + l), Max(0, os + l)>>
      [] ty = "FF" -> <<Max(0, of + l - d), Max(0, of + l)>>
      [] ty = "SF" -> <<Max(0, of + l), Max(0, of + l + d)>>

\* C19: every call made over an SS, FF or SF edge with lag l, from a task
\* that came with offsets (os, of), carries the offsets of the table floored
\* at 0, S.duration being the successor's duration; no call made for a
\* successor carries a negative offset.
C19_OtherTypesPropagation ==
    \A j \in 1..(Len(pilha) - 1) :
        LET f == pilha[j]
            c == pilha[j + 1]
            suc == f.sucessoras[f.i - 1]
        IN  /\ c.atraso_inicio >= 0 /\ c.atraso_termino >= 0
            /\ c.current_idx = PyInt(suc.id)
            /\ suc.rel_type \in {"SS", "FF", "SF"}
               => <<c.atraso_inicio, c.atraso_termino>> =
                    TabelaOffsets(suc.rel_type, f.atraso_inicio, f.atraso_termino, suc.lag,
                                  IF InIndex(df, c.current_idx)
                                  THEN df[c.current_idx].duracao ELSE 0)

C19_Witness ==
    /\ Len(pilha) >= 2
    /\ LET f == pilha[Len(pilha) - 1]
           c == pilha[Len(pilha)]
           suc == f.sucessoras[f.i - 1]
       IN  /\ suc.rel_type = "FF"
           /\ f.atraso_termino + suc.lag - df[c.current_idx].duracao < 0
           /\ c.atraso_inicio = 0
           /\ c.atraso_termino > 0

\* C20: for every task the simulation has processed, whatever the pair of
\* offsets it came with, the finish recorded is the start recorded plus the
\* task's duration, in the working copy and in the impact table; the
\* duration of no row is ever changed.
C20_DurationInvariant ==
    /\ \A k \in DOMAIN df_sim : df_sim[k].duracao = df[k].duracao
    /\ \A k \in visited :
          df_sim[k].termino - df_sim[k].inicio = df[k].duracao
    /\ \A i \in 1..Len(tarefas_impactadas) :
          LET r == tarefas_impactadas[i]
          IN  /\ r.inicio_novo = Strftime(df[r.indice].inicio + r.atraso_inicio)
              /\ r.termino_novo =
                    Strftime(df[r.indice].inicio + r.atraso_inicio + df[r.indice].duracao)

C20_Witness ==
    /\ spc = "return" /\ retorno.returned /\ retorno.raised = ""
    /\ \E i \in 1..Len(tarefas_impactadas) :
          LET r == tarefas_impactadas[i]
          IN  /\ r.atraso_inicio < r.atraso_termino
              /\ df_sim[r.indice].termino # df[r.indice].termino + r.atraso_termino
              /\ df_sim[r.indice].termino - df_sim[r.indice].inicio = df[r.indice].duracao

\* C21: for every task the simulation has processed, the new slack is the
\* old slack less min(old slack, max(offset to start, offset to finish)), and
\* the row of the working copy is flagged 'Sim' if and only if its new slack
\* is 0: a row that was flagged and keeps slack is no longer flagged.
C21_SlackAndFlag ==
    /\ \A i \in 1..Len(tarefas_impactadas) :
          LET r == tarefas_impactadas[i]
          IN  /\ r.indice \in visited
              /\ r.folga_original = FolgaNumerica(df[r.indice])
              /\ r.nova_folga =
                    r.folga_original
                    - Min(r.folga_original, Max(r.atraso_inicio, r.atraso_termino))
              /\ df_sim[r.indice].folga = r.nova_folga
    /\ \A k \in visited :
          /\ \E i \in 1..Len(tarefas_impactadas) : tarefas_impactadas[i].indice = k
          /\ df_sim[k].critica = "Sim" <=> df_sim[k].folga = 0

C21_Witness ==
    /\ spc = "return" /\ retorno.returned /\ retorno.raised = ""
    /\ \E k \in visited :
          /\ df[k].critica = "Sim"
          /\ df_sim[k].critica = "Nao"
          /\ df_sim[k].folga > 0
          /\ df_sim[k].folga < FolgaNumerica(df[k])
    /\ \E k \in visited :
          /\ df[k].critica = "Nao"
          /\ df_sim[k].critica = "Sim"
          /\ FolgaNumerica(df[k]) > 0

\* The first of the rows named by ids, in order, among those of least slack;
\* -1 when ids names no row of d.
RECURSIVE MenorFolga(_, _, _)
MenorFolga(d, ids_ref, melhor) ==
    IF ids_ref = <<>> THEN melhor
    ELSE LET k == Head(ids_ref)
         IN  IF InIndex(d, k) /\ (melhor = 0 - 1 \/ d[k].folga < d[melhor].folga)
             THEN MenorFolga(d, Tail(ids_ref), k)
             ELSE MenorFolga(d, Tail(ids_ref), melhor)

\* The ids a successor string refers to: the leading digits of its tokens.
Referidas(suc) ==
    [i \in 1..Len(extrair_ids_sucessoras(suc)) |->
        PyInt(extrair_ids_sucessoras(suc)[i].id)]

\* C22: at a task of the walk that is not critical, the next hop is the row
\* of least slack among the rows the task's successor string refers to, the
\* first in parse order on a tie; when the string refers to no row the walk
\* has no next hop, and a next hop that is already on the chain ends the walk.
C22_NextHopMinimumSlack ==
    /\ [](( cpc = "while" /\ current_idx.tag # "none"
            /\ InIndex(df_cadeias, IntOf(current_idx))
            /\ \E i \in 1..Len(cadeia) : cadeia[i] = df_cadeias[IntOf(current_idx)].nome )
          => ~WhileCond)
    /\ [][( cpc = "while" /\ WhileCond
            /\ InIndex(df_cadeias, IntOf(current_idx))
            /\ df_cadeias[IntOf(current_idx)].critica # "Sim" )
          => LET esperada == MenorFolga(df_cadeias,
                                        Referidas(df_cadeias[IntOf(current_idx)].sucessoras),
                                        0 - 1)
             IN  IF esperada = 0 - 1
                 THEN current_idx'.tag = "none"
                 ELSE current_idx'.tag # "none" /\ IntOf(current_idx') = esperada]_vars

\* The names of c, each kept where it comes first.
RECURSIVE SemRepetidos(_)
SemRepetidos(c) ==
    IF c = <<>> THEN <<>>
    ELSE LET frente == SubSeq(c, 1, Len(c) - 1)
         IN  IF \E i \in 1..Len(frente) : frente[i] = c[Len(c)]
             THEN SemRepetidos(frente)
             ELSE Append(SemRepetidos(frente), c[Len(c)])

\* C23: within one call of rastrear_cadeia no task is on the chain more than
\* once and the total holds the slack of each task of the chain once, also
\* when the successors lead back to the task the walk started from.
C23_NoTaskTwiceOnChain ==
    cpc \in {"while", "append"}
    => /\ \A i, j \in 1..Len(cadeia) : i # j => cadeia[i] # cadeia[j]
       /\ folga_total = SomaFolga(SemRepetidos(cadeia))

\* The rows reached from row k over references to rows of d, each once, in
\* the order a depth-first walk that follows the references in parse order
\* comes to them first; ordem holds the rows reached before.
RECURSIVE Dfs(_, _, _)
RECURSIVE DfsSucessoras(_, _, _)
Dfs(d, k, ordem) ==
    IF ~InIndex(d, k) \/ (\E i \in 1..Len(ordem) : ordem[i] = k) THEN ordem
    ELSE DfsSucessoras(d, Referidas(d[k].sucessoras), Append(ordem, k))

DfsSucessoras(d, refs, ordem) ==
    IF refs = <<>> THEN ordem
    ELSE DfsSucessoras(d, Tail(refs), Dfs(d, Head(refs), ordem))

\* C24: a simulation that ends without error returns an impact table with
\* one row for each task reachable from the seed over references to existing
\* tasks, whatever the offsets, in depth-first preorder; a row is written on
\* the first arrival at its task with the offsets of that arrival and is
\* never changed, and an arrival at a task already settled writes nothing.
C24_ImpactTablePreorder ==
    /\ [](SimulacaoConcluida
          => [i \in 1..Len(retorno.tabela_impacto) |-> retorno.tabela_impacto[i].indice]
               = Dfs(df, tarefa_idx, <<>>))
    /\ [][/\ Len(tarefas_impactadas') >= Len(tarefas_impactadas)
          /\ \A i \in 1..Len(tarefas_impactadas) :
                tarefas_impactadas'[i] = tarefas_impactadas[i]
          /\ Len(tarefas_impactadas') > Len(tarefas_impactadas)
             => LET r == tarefas_impactadas'[Len(tarefas_impactadas')]
                IN  /\ Len(tarefas_impactadas') = Len(tarefas_impactadas) + 1
                    /\ r.indice = Topo.current_idx
                    /\ r.indice \notin visited
                    /\ r.atraso_inicio = Topo.atraso_inicio
                    /\ r.atraso_termino = Topo.atraso_termino
          /\ (spc = "propagar" /\ pilha # <<>> /\ Topo.pc = "entry"
                /\ Topo.current_idx \in visited)
             => tarefas_impactadas' = tarefas_impactadas /\ df_sim' = df_sim]_vars

\* An arrival at a task already settled, with a larger offset than the one
\* the task was settled with, and an arrival with no offset at a task that
\* is settled all the same.
C24_Witness ==
    /\ spc = "propagar" /\ pilha # <<>> /\ Topo.pc = "entry"
    /\ Topo.current_idx \in visited
    /\ \E i \in 1..Len(tarefas_impactadas) :
          /\ tarefas_impactadas[i].indice = Topo.current_idx
          /\ tarefas_impactadas[i].atraso_inicio < Topo.atraso_inicio
    /\ \E i \in 1..Len(tarefas_impactadas) :
          /\ tarefas_impactadas[i].indice # tarefa_idx
          /\ tarefas_impactadas[i].atraso_inicio = 0
          /\ tarefas_impactadas[i].atraso_termino = 0

\* C25: for a processed task whose baseline finish is its start plus its
\* duration, the new finish is the old finish plus the offset to start, also
\* when the offset to finish is another number: the offset to finish moves no
\* date, it is recorded in its column and counts in the slack absorbed
\* through max(offset to start, offset to finish).
C25_FinishFollowsStartOffset ==
    \A i \in 1..Len(tarefas_impactadas) :
        LET r == tarefas_impactadas[i]
            antes == df[r.indice]
        IN  antes.termino - antes.inicio = antes.duracao
            => /\ df_sim[r.indice].termino = antes.termino + r.atraso_inicio
               /\ df_sim[r.indice].inicio = antes.inicio + r.atraso_inicio
               /\ r.termino_novo = Strftime(antes.termino + r.atraso_inicio)
               /\ r.termino_original = Strftime(antes.termino)
               /\ r.folga_original - r.nova_folga
                    = Min(r.folga_original, Max(r.atraso_inicio, r.atraso_termino))

C25_Witness ==
    /\ spc = "return" /\ retorno.returned /\ retorno.raised = ""
    /\ \E i \in 1..Len(tarefas_impactadas) :
          LET r == tarefas_impactadas[i]
              antes == df[r.indice]
          IN  /\ antes.termino - antes.inicio = antes.duracao
              /\ r.atraso_inicio < r.atraso_termino
              /\ df_sim[r.indice].termino # antes.termino + r.atraso_termino
              /\ r.folga_original - r.nova_folga > Min(r.folga_original, r.atraso_inicio)

\* The string carries an offset of the sign: the sign followed by a digit.
TemOffset(x, sinal) ==
    \E i \in 1..(Len(x) - 1) : x[i] = sinal /\ x[i + 1] \in Digits

\* The rows whose predecessor string carries an offset of the sign.
ComOffset(sinal) ==
    Cardinality({ k \in DOMAIN df :
                    ~df[k].predecessoras.isna /\ TemOffset(df[k].predecessoras.s, sinal) })

\* C26: the leads percentage calcular_indicadores returns first (the card
\* 'Latencias -') is the share of tasks whose predecessor string carries a
\* negative offset, and the lags percentage it returns second (the card
\* 'Latencias +') is the share of tasks whose predecessor string carries a
\* positive offset.
C26_LeadsAndLags ==
    (indicadores.returned /\ ColunasIndicadores \subseteq colunas)
    => /\ indicadores.leads_pct = Pct(ComOffset("-"), Cardinality(DOMAIN df))
       /\ indicadores.lags_pct = Pct(ComOffset("+"), Cardinality(DOMAIN df))

====
